---- MODULE Spec2Model ----
(***************************************************************************)
(* Build / launch glue of the Makefile Tools extension.                    *)
(*                                                                         *)
(*   src/src/make.ts        build, dry-run, build-log parsing and the      *)
(*                          pre-configure script                           *)
(*   src/unnamed/part_000   the Launcher: debugger guess and the retained  *)
(*                          "Make/Launch" terminal                         *)
(*                                                                         *)
(* JavaScript strings are TLA+ strings (\o is +, Len is .length, SubSeq is *)
(* .substring).  A value of type T | undefined is a tuple of length 0      *)
(* (undefined) or 1 (the value).  JavaScript runs one turn of the event    *)
(* loop at a time, so an action is one turn: a handler from its call to    *)
(* its first await (or its return), a callback of a child process, or the  *)
(* catch block that runs when the awaited promise rejects.  What a turn    *)
(* did to its collaborators (log sink, UI, process spawner, file system,   *)
(* IntelliSense provider, terminal) is recorded in `last`.                 *)
(***************************************************************************)
EXTENDS Integers, Sequences, FiniteSets, Bags, TLC

VARIABLES
    procs,             \* the spawned child processes in flight, a bag: each
                       \* with the closure variables stdoutStr / stderrStr
                       \* of its callbacks (two children share nothing)
    launchTerminal,    \* Launcher.launchTerminal
    terminals,         \* number of terminals created by the launcher so far
    closedTerminals,   \* terminals that are closed (disposed)
    disposed,          \* Launcher.dispose() has run (close listener disposed)
    debugging,         \* the calls of debugCurrentTarget that wait for
                       \* vscode.debug.startDebugging
    platform,          \* process.platform, fixed while the extension host runs
    compilerPath,      \* extension.extension?.getCompilerFullPath()
    files,             \* the debugger executables that exist on disk
    last               \* what the last turn did

host == <<platform, compilerPath, files>>

vars ==
    <<procs, launchTerminal, terminals, closedTerminals, disposed, debugging,
      host, last>>

launchVars ==
    <<launchTerminal, terminals, closedTerminals, disposed, debugging, host>>

-----------------------------------------------------------------------------
(* Bounds *)

\* Characters the child processes in flight may have written.
MaxOutput == 3
\* Child processes in flight at the same time.
MaxChildren == 2
\* Terminals the launcher may create in one session.
MaxTerminals == 2
\* Calls of debugCurrentTarget waiting for their debug session at a time.
MaxDebugging == 2
\* Chunks of output the children of the pre-configure script write in all.
MaxScriptOutput == 1

-----------------------------------------------------------------------------
(* JavaScript values *)

None == <<>>
Some(v) == <<v>>

\* if (s) for s : string | undefined
Truthy(s) == s /= None /\ s[1] /= ""

\* a || b for a : string | undefined
OrElse(a, b) == IF Truthy(a) THEN a[1] ELSE b

\* Array.prototype.join
RECURSIVE Join(_, _)
Join(arr, sep) ==
    IF arr = <<>> THEN ""
    ELSE IF Len(arr) = 1 THEN arr[1]
    ELSE arr[1] \o sep \o Join(Tail(arr), sep)

\* String.prototype.startsWith
StartsWith(s, prefix) ==
    /\ Len(s) >= Len(prefix)
    /\ SubSeq(s, 1, Len(prefix)) = prefix

\* String.prototype.slice(from, to), for 0 <= from and to <= s.length
Slice(s, from, to) == IF to <= from THEN "" ELSE SubSeq(s, from + 1, to)

\* String.prototype.charAt
CharAt(s, i) == IF 0 <= i /\ i < Len(s) THEN SubSeq(s, i + 1, i + 1) ELSE ""

-----------------------------------------------------------------------------
(* Configuration provider and host: the values the handlers read *)

Targets == {None, Some(""), Some("all")}
MakeArgLists == {<<>>, <<"-C", "sub">>}
DryRunSwitchLists == {None, Some(<<>>), Some(<<"--keep-going", "--print-directory">>)}
MakeCommands == {"make"}
RootPaths == {None, Some("/ws")}

\* The configured dry-run cache and the file system behind it: whether a file
\* can be written at that path (it cannot when its directory does not exist).
DryrunCaches ==
    { [path |-> "/ws/dryrun.log", writable |-> TRUE],
      [path |-> "/ws/dryrun.log", writable |-> FALSE] }

RetCodes == {0, 1}
StdoutFragments == {"a", "b"}
StderrFragments == {"!"}

\* The configured build log and the file system behind it: the configured
\* path (if any) and, when the file exists, its content.
BuildLogs ==
    { [path |-> None,              file |-> None],
      [path |-> Some(""),          file |-> None],
      [path |-> Some("build.log"), file |-> None],
      [path |-> Some("build.log"), file |-> Some("")],
      [path |-> Some("build.log"), file |-> Some("cc -c a.c")] }

\* The configured pre-configure script and whether it exists on disk.
PreconfigureScripts ==
    { [path |-> None,            exists |-> FALSE],
      [path |-> Some(""),        exists |-> FALSE],
      [path |-> Some("/ws/pre"), exists |-> FALSE],
      [path |-> Some("/ws/pre"), exists |-> TRUE] }

Platforms == {"linux", "darwin", "win32"}

-----------------------------------------------------------------------------
(* What a turn did.  Each field is the sequence of calls it made to one    *)
(* collaborator.                                                           *)

Quiet(op, input) ==
    [ op       |-> op,        \* the handler or callback
      input    |-> input,     \* what it read
      errors   |-> <<>>,      \* vscode.window.showErrorMessage
      log      |-> <<>>,      \* logger.message / logger.messageNoCR
      spawns   |-> <<>>,      \* util.spawnChildProcess
      writes   |-> <<>>,      \* fs.writeFileSync
      provider |-> <<>>,      \* ext.updateProvider
      reports  |-> 0,         \* util.reportDryRunError
      probes   |-> <<>>,      \* util.checkFileExistsSync
      debug    |-> <<>>,      \* vscode.debug.startDebugging
      created  |-> <<>>,      \* vscode.window.createTerminal
      sent     |-> <<>>,      \* Terminal.sendText
      shown    |-> <<>>,      \* Terminal.show
      result   |-> None ]     \* the value returned, of a synchronous function

\* A child process just spawned, with the closure of its callbacks.  The
\* callbacks of a build keep nothing, so stdoutStr and stderrStr stay empty
\* for it.
Running(kind) ==
    [ kind      |-> kind,
      stdoutStr |-> "",
      stderrStr |-> "",
      written   |-> 0,        \* the characters the child has written so far
      arrived   |-> <<>> ]    \* of a dry-run: its fragments so far, in order

\* util.spawnChildProcess: the child is started and the promise is pending.
SpawnChildProcess(children, kind) == children (+) SetToBag({Running(kind)})

\* util.spawnChildProcess: an error of the spawn itself rejects the promise,
\* and no callback is called for that child.
SpawnError == "spawn ENOENT"

MayReject(child) == child.written = 0

\* The children in flight without one of them.
Remove(children, child) == children (-) SetToBag({child})

\* The children in flight, with one of them in a new state.
Replace(children, child, next) ==
    (children (-) SetToBag({child})) (+) SetToBag({next})

\* The characters the children in flight have written.
RECURSIVE Output(_)
Output(children) ==
    IF children = EmptyBag THEN 0
    ELSE LET child == CHOOSE c \in BagToSet(children) : TRUE
         IN  child.written + Output(Remove(children, child))

\* A child after it wrote a fragment.
Wrote(child, result) == [child EXCEPT !.written = @ + Len(result)]

\* A dry-run after a fragment arrived on one of its streams.
Delivered(child, stream, result) ==
    [Wrote(child, result) EXCEPT !.arrived = Append(@, <<stream, result>>)]

-----------------------------------------------------------------------------
(* make.ts *)

\* util.readFile: the content of the file, undefined when it does not exist
ReadFile(buildLog) == buildLog.file

\* prepareBuildCurrentTarget with the target appended after the configured
\* arguments
MakeArgsTargetLast(currentTarget, configurationMakeArgs) ==
    IF Truthy(currentTarget)
    THEN Append(configurationMakeArgs, currentTarget[1])
    ELSE configurationMakeArgs

\* prepareBuildCurrentTarget, the argument list
MakeArgs(currentTarget, configurationMakeArgs) ==
    LET makeArgs0 == <<>>
        makeArgs1 == IF Truthy(currentTarget)
                     THEN Append(makeArgs0, currentTarget[1])
                     ELSE makeArgs0
    IN  makeArgs1 \o configurationMakeArgs

\* prepareBuildCurrentTarget, from the argument list on
PreparedWith(op, input, cmd, makeArgs) ==
    [Quiet(op, input) EXCEPT
        !.result = Some(makeArgs),
        !.log = <<"Building the current target. Command: " \o cmd
                  \o " " \o Join(makeArgs, " ")>>]

\* prepareBuildCurrentTarget, as a turn called op
Prepared(op, currentTarget, args, cmd) ==
    PreparedWith(op, [currentTarget |-> currentTarget, makeArgs |-> args,
                      dryRunSwitches |-> None, dryRun |-> FALSE],
                 cmd, MakeArgs(currentTarget, args))

\* prepareBuildCurrentTarget, called on its own
PrepareBuildCurrentTarget ==
    /\ \E currentTarget \in Targets, args \in MakeArgLists, cmd \in MakeCommands :
         last' = Prepared("prepareBuildCurrentTarget", currentTarget, args, cmd)
    /\ UNCHANGED <<procs, launchVars>>

\* buildCurrentTarget, the call of util.spawnChildProcess with the prepared
\* argument list
BuildSpawned(prepared, cmd, rootPath) ==
    [prepared EXCEPT
        !.spawns = <<[command |-> cmd, args |-> prepared.result[1],
                      cwd |-> OrElse(rootPath, "")]>>,
        !.result = None]

\* buildCurrentTarget, up to its await
BuildCurrentTarget ==
    /\ BagCardinality(procs) < MaxChildren
    /\ \E currentTarget \in Targets, args \in MakeArgLists, cmd \in MakeCommands,
          rootPath \in RootPaths :
         last' = BuildSpawned(Prepared("buildCurrentTarget", currentTarget,
                                       args, cmd),
                              cmd, rootPath)
    /\ procs' = SpawnChildProcess(procs, "build")
    /\ UNCHANGED launchVars

\* buildCurrentTarget, the catch block
BuildRejected ==
    /\ \E child \in BagToSet(procs) :
         /\ child.kind = "build"
         /\ MayReject(child)
         /\ procs' = Remove(procs, child)
    /\ last' = [Quiet("buildRejected", SpawnError) EXCEPT !.log = <<SpawnError>>]
    /\ UNCHANGED launchVars

BuildStdout ==
    /\ Output(procs) < MaxOutput
    /\ \E child \in BagToSet(procs), result \in StdoutFragments :
         /\ child.kind = "build"
         /\ procs' = Replace(procs, child, Wrote(child, result))
         /\ last' = [Quiet("buildStdout", result) EXCEPT !.log = <<result>>]
    /\ UNCHANGED launchVars

BuildStderr ==
    /\ Output(procs) < MaxOutput
    /\ \E child \in BagToSet(procs), result \in StderrFragments :
         /\ child.kind = "build"
         /\ procs' = Replace(procs, child, Wrote(child, result))
         /\ last' = [Quiet("buildStderr", result) EXCEPT !.log = <<result>>]
    /\ UNCHANGED launchVars

BuildClosing ==
    /\ \E child \in BagToSet(procs), retCode \in RetCodes :
         /\ child.kind = "build"
         /\ procs' = Remove(procs, child)
         /\ last' = [Quiet("buildClosing", retCode) EXCEPT
                !.log = IF retCode /= 0
                        THEN <<"The current target failed to build.">>
                        ELSE <<"The current target built successfully.">>]
    /\ UNCHANGED launchVars

\* parseBuild: the content handed to the provider, when there is one
ParseBuildContent(buildLog) ==
    IF Truthy(buildLog.path) THEN ReadFile(buildLog) ELSE None

\* parseBuild, the value it returns
ParseBuildReturns(buildLog) == Truthy(ParseBuildContent(buildLog))

\* parseBuild, as (part of) a turn called op
ParsedBuild(op, buildLog) ==
    IF ParseBuildReturns(buildLog)
    THEN [Quiet(op, [buildLog |-> buildLog]) EXCEPT
            !.log = <<"Parsing the provided build log \"" \o buildLog.path[1]
                      \o "\" for IntelliSense integration with CppTools...">>,
            !.provider = <<ParseBuildContent(buildLog)[1]>>,
            !.result = Some(TRUE)]
    ELSE [Quiet(op, [buildLog |-> buildLog]) EXCEPT !.result = Some(FALSE)]

\* parseBuild, called on its own
ParseBuild ==
    /\ \E buildLog \in BuildLogs : last' = ParsedBuild("parseBuild", buildLog)
    /\ UNCHANGED <<procs, launchVars>>

\* parseBuildOrDryRun, the argument list of the dry-run
DryRunMakeArgs(currentTarget, configurationMakeArgs, dryRunSwitches) ==
    LET makeArgs0 == <<>>
        makeArgs1 == IF Truthy(currentTarget)
                     THEN Append(makeArgs0, currentTarget[1])
                     ELSE makeArgs0
        makeArgs2 == makeArgs1 \o configurationMakeArgs
        makeArgs3 == Append(makeArgs2, "--dry-run")
    IN  IF dryRunSwitches /= None
        THEN makeArgs3 \o dryRunSwitches[1]
        ELSE makeArgs3

\* parseBuildOrDryRun after parseBuild returned false, from the argument
\* list to the await
DryRunSpawned(input, cmd, makeArgs, rootPath) ==
    [Quiet("parseBuildOrDryRun", input) EXCEPT
        !.log = <<"Generating the make dry-run output for parsing IntelliSense information. Command: "
                  \o cmd \o " " \o Join(makeArgs, " ")>>,
        !.spawns = <<[command |-> cmd, args |-> makeArgs,
                      cwd |-> OrElse(rootPath, "")]>>]

\* parseBuildOrDryRun, up to its return or its await
ParseBuildOrDryRun ==
    /\ \E buildLog \in BuildLogs :
         IF ParseBuildReturns(buildLog)
         THEN /\ last' = [ParsedBuild("parseBuildOrDryRun", buildLog) EXCEPT
                             !.result = None]
              /\ UNCHANGED procs
         ELSE /\ BagCardinality(procs) < MaxChildren
              /\ \E currentTarget \in Targets, args \in MakeArgLists,
                    dryRunSwitches \in DryRunSwitchLists, cmd \in MakeCommands,
                    rootPath \in RootPaths :
                   last' = DryRunSpawned(
                       [currentTarget |-> currentTarget, makeArgs |-> args,
                        dryRunSwitches |-> dryRunSwitches, dryRun |-> TRUE,
                        buildLog |-> buildLog],
                       cmd, DryRunMakeArgs(currentTarget, args, dryRunSwitches),
                       rootPath)
              /\ procs' = SpawnChildProcess(procs, "dryRun")
    /\ UNCHANGED launchVars

\* parseBuildOrDryRun, the catch block
DryRunRejected ==
    /\ \E child \in BagToSet(procs) :
         /\ child.kind = "dryRun"
         /\ MayReject(child)
         /\ procs' = Remove(procs, child)
    /\ last' = [Quiet("dryRunRejected", SpawnError) EXCEPT !.log = <<SpawnError>>]
    /\ UNCHANGED launchVars

\* parseBuildOrDryRun, stdout callback of the dry-run
DryRunStdoutStr(stdoutStr, result) == stdoutStr \o result

\* parseBuildOrDryRun, stderr callback of the dry-run
DryRunStderrStr(stderrStr, result) == stderrStr \o result

DryRunStdout ==
    /\ Output(procs) < MaxOutput
    /\ \E child \in BagToSet(procs), result \in StdoutFragments :
         /\ child.kind = "dryRun"
         /\ procs' = Replace(procs, child,
                [Delivered(child, "stdout", result) EXCEPT
                    !.stdoutStr = DryRunStdoutStr(@, result)])
         /\ last' = Quiet("dryRunStdout", result)
    /\ UNCHANGED launchVars

DryRunStderr ==
    /\ Output(procs) < MaxOutput
    /\ \E child \in BagToSet(procs), result \in StderrFragments :
         /\ child.kind = "dryRun"
         /\ procs' = Replace(procs, child,
                [Delivered(child, "stderr", result) EXCEPT
                    !.stderrStr = DryRunStderrStr(@, result)])
         /\ last' = Quiet("dryRunStderr", result)
    /\ UNCHANGED launchVars

\* parseBuildOrDryRun, closing callback: how often reportDryRunError is called
DryRunReports(retCode) == IF retCode /= 0 THEN 1 ELSE 0

\* parseBuildOrDryRun, closing callback: the call of fs.writeFileSync
DryRunCacheWrites(file, stdoutStr, stderrStr) ==
    <<[file |-> file, data |-> stdoutStr]>>

\* parseBuildOrDryRun, closing callback: what the provider is given.  When
\* fs.writeFileSync throws, the callback ends there and the provider is not
\* called.
DryRunProvider(dryrunCache, stdoutStr, stderrStr) ==
    IF dryrunCache.writable THEN <<stdoutStr>> ELSE <<>>

\* parseBuildOrDryRun, closing callback of a child
DryRunClosed(child, retCode, dryrunCache) ==
    [Quiet("dryRunClosing", [retCode |-> retCode, arrived |-> child.arrived,
                             dryrunCache |-> dryrunCache]) EXCEPT
        !.log = IF retCode /= 0
                THEN <<"The make dry-run command failed. IntelliSense may work only partially or not at all.",
                       child.stderrStr>>
                ELSE <<>>,
        !.reports = DryRunReports(retCode),
        !.writes = DryRunCacheWrites(dryrunCache.path, child.stdoutStr, child.stderrStr),
        !.provider = DryRunProvider(dryrunCache, child.stdoutStr, child.stderrStr)]

DryRunClosing ==
    /\ \E child \in BagToSet(procs), retCode \in RetCodes,
          dryrunCache \in DryrunCaches :
         /\ child.kind = "dryRun"
         /\ procs' = Remove(procs, child)
         /\ last' = DryRunClosed(child, retCode, dryrunCache)
    /\ UNCHANGED launchVars

\* runPreconfigureScript without the check that the script exists on disk
PreconfigureScriptSet(script) == Truthy(script.path)

\* runPreconfigureScript: the script is configured and exists on disk
PreconfigureScriptFound(script) == Truthy(script.path) /\ script.exists

\* runPreconfigureScript: the calls of util.checkFileExistsSync
PreconfigureProbes(script) ==
    IF Truthy(script.path) THEN <<script.path[1]>> ELSE <<>>

\* runPreconfigureScript: the command line that runs the script
PreconfigureCommand(os, script) ==
    IF os = "win32"
    THEN [command |-> "cmd", args |-> <<"/c", script>>]
    ELSE [command |-> "/bin/bash", args |-> <<"-c", "\"source " \o script \o "\"">>]

\* runPreconfigureScript, when the script is not found
PreconfigureNotFound(script, os) ==
    [Quiet("runPreconfigureScript", [script |-> script, platform |-> os]) EXCEPT
        !.probes = PreconfigureProbes(script),
        !.errors = <<"Could not find pre-configure script.">>,
        !.log = <<"Make sure a pre-configuration script path is defined with makefile.preconfigureScript and that it exists on disk.">>]

\* runPreconfigureScript, from the command line to the await
PreconfigureSpawned(script, os, run, rootPath) ==
    [Quiet("runPreconfigureScript", [script |-> script, platform |-> os]) EXCEPT
        !.probes = PreconfigureProbes(script),
        !.spawns = <<[command |-> run.command, args |-> run.args,
                      cwd |-> OrElse(rootPath, "")]>>]

\* runPreconfigureScript, up to its return or its await
RunPreconfigureScript ==
    /\ \E script \in PreconfigureScripts :
         IF ~PreconfigureScriptFound(script)
         THEN /\ last' = PreconfigureNotFound(script, platform)
              /\ UNCHANGED procs
         ELSE /\ BagCardinality(procs) < MaxChildren
              /\ procs' = SpawnChildProcess(procs, "preconfigure")
              /\ \E rootPath \in RootPaths :
                   last' = PreconfigureSpawned(script, platform,
                               PreconfigureCommand(platform, script.path[1]),
                               rootPath)
    /\ UNCHANGED launchVars

\* runPreconfigureScript, the catch block
PreconfigureRejected ==
    /\ \E child \in BagToSet(procs) :
         /\ child.kind = "preconfigure"
         /\ MayReject(child)
         /\ procs' = Remove(procs, child)
    /\ last' = [Quiet("preconfigureRejected", SpawnError) EXCEPT
                   !.log = <<SpawnError>>]
    /\ UNCHANGED launchVars

PreconfigureStdout ==
    /\ Output(procs) < MaxScriptOutput
    /\ \E child \in BagToSet(procs), result \in StdoutFragments :
         /\ child.kind = "preconfigure"
         /\ procs' = Replace(procs, child,
                [Wrote(child, result) EXCEPT !.stdoutStr = @ \o result])
         /\ last' = Quiet("preconfigureStdout", result)
    /\ UNCHANGED launchVars

PreconfigureStderr ==
    /\ Output(procs) < MaxScriptOutput
    /\ \E child \in BagToSet(procs), result \in StderrFragments :
         /\ child.kind = "preconfigure"
         /\ procs' = Replace(procs, child,
                [Wrote(child, result) EXCEPT !.stderrStr = @ \o result])
         /\ last' = Quiet("preconfigureStderr", result)
    /\ UNCHANGED launchVars

PreconfigureClosing ==
    /\ \E child \in BagToSet(procs), retCode \in RetCodes :
         /\ child.kind = "preconfigure"
         /\ procs' = Remove(procs, child)
         /\ last' = [Quiet("preconfigureClosing", retCode) EXCEPT
                !.log = IF retCode = 0
                        THEN <<"The preconfigure script run successfully.">>
                        ELSE <<"The preconfigure script failed. This project may not configure successfully.",
                               child.stderrStr>>]
    /\ UNCHANGED launchVars

-----------------------------------------------------------------------------
(* Node's path module, as process.platform selects it (path.posix, or      *)
(* path.win32 on "win32").  Offsets into a string count from 0, as in      *)
(* JavaScript.                                                             *)

\* isPathSeparator / isPosixPathSeparator
Separators(os) == IF os = "win32" THEN {"/", "\\"} ELSE {"/"}

\* path.sep
NativeSeparator(os) == IF os = "win32" THEN "\\" ELSE "/"

\* isWindowsDeviceRoot
Letters ==
    { "a", "b", "c", "d", "e", "f", "g", "h", "i", "j", "k", "l", "m",
      "n", "o", "p", "q", "r", "s", "t", "u", "v", "w", "x", "y", "z",
      "A", "B", "C", "D", "E", "F", "G", "H", "I", "J", "K", "L", "M",
      "N", "O", "P", "Q", "R", "S", "T", "U", "V", "W", "X", "Y", "Z" }

\* The offset of the last character of s that is in chars, -1 when there is
\* none (lastIndexOf).
LastIndexIn(s, chars) ==
    LET hits == {i \in 0..(Len(s) - 1) : CharAt(s, i) \in chars}
    IN  IF hits = {} THEN -1 ELSE CHOOSE i \in hits : \A j \in hits : j <= i

\* while (j < len && isPathSeparator(p[j]) /= stop) j++ : the first offset
\* from j on whose character is a separator (stop) or is none (~stop), the
\* length of p when there is no such offset.
ScanTo(os, p, j, stop) ==
    LET hits == {i \in j..(Len(p) - 1) : (CharAt(p, i) \in Separators(os)) = stop}
    IN  IF hits = {} THEN Len(p) ELSE CHOOSE i \in hits : \A k \in hits : i <= k

\* path.win32: the match of a UNC root, \\server\share
UncServerEnd(p) == ScanTo("win32", p, 2, TRUE)

UncShareStart(p) == ScanTo("win32", p, UncServerEnd(p), FALSE)

UncShareEnd(p) == ScanTo("win32", p, UncShareStart(p), TRUE)

IsUnc(p) ==
    /\ CharAt(p, 0) \in Separators("win32")
    /\ CharAt(p, 1) \in Separators("win32")
    /\ UncServerEnd(p) < Len(p)
    /\ UncServerEnd(p) /= 2
    /\ UncShareStart(p) < Len(p)

\* path.win32: a device root, C:
IsDevice(p) == CharAt(p, 0) \in Letters /\ CharAt(p, 1) = ":"

\* path.parse: the length of the root of p (rootEnd).  "/" on POSIX; on
\* Windows a separator, \\server\share\, C: or C:\.
RootLength(os, p) ==
    IF os /= "win32" THEN (IF CharAt(p, 0) = "/" THEN 1 ELSE 0)
    ELSE IF CharAt(p, 0) \in Separators(os)
         THEN IF IsUnc(p)
              THEN (IF UncShareEnd(p) = Len(p) THEN Len(p) ELSE UncShareEnd(p) + 1)
              ELSE 1
         ELSE IF IsDevice(p)
              THEN (IF CharAt(p, 2) \in Separators(os) THEN 3 ELSE 2)
              ELSE 0

\* path.parse: end, the offset after the last character behind the root that
\* is not a separator; -1 when there is none
BaseEnd(os, p, root) ==
    LET hits == {i \in root..(Len(p) - 1) : CharAt(p, i) \notin Separators(os)}
    IN  IF hits = {} THEN -1
        ELSE (CHOOSE i \in hits : \A j \in hits : j <= i) + 1

\* path.parse: the offset after the last separator between the root and the
\* base; 0 when there is none
BaseCut(os, p, root, end) ==
    LET hits == {i \in root..(end - 2) : CharAt(p, i) \in Separators(os)}
    IN  IF hits = {} THEN 0
        ELSE (CHOOSE i \in hits : \A j \in hits : j <= i) + 1

\* path.parse: startPart, which starts at 0 on POSIX and at the end of the
\* root on Windows
StartPart(os, root, cut) ==
    IF cut /= 0 THEN cut ELSE IF os = "win32" THEN root ELSE 0

\* path.parse: where the base starts
BaseFrom(root, cut) == IF cut /= 0 THEN cut ELSE root

\* path.parse: startDot, the offset of the last dot of the base, -1 without
DotOf(p, from, end) ==
    LET dot == LastIndexIn(Slice(p, from, end), {"."})
    IN  IF dot = -1 THEN -1 ELSE from + dot

\* path.parse: preDotState, what was seen between the start of the base and
\* its last dot: nothing (0), a dot first (1), another character first (-1)
PreDotState(p, from, startDot) ==
    IF startDot = from THEN 0
    ELSE IF CharAt(p, from) = "." THEN 1
    ELSE -1

\* path.parse: the base has no extension
NoExtension(p, from, end, startPart, startDot) ==
    \/ startDot = -1
    \/ PreDotState(p, from, startDot) = 0
    \/ /\ PreDotState(p, from, startDot) = 1
       /\ startDot = end - 1
       /\ startDot = startPart + 1

\* path.parse: the name field
NameOf(p, from, end, startPart, startDot) ==
    IF end = -1 THEN ""
    ELSE IF NoExtension(p, from, end, startPart, startDot)
         THEN Slice(p, from, end)
         ELSE Slice(p, from, startDot)

\* path.parse: the ext field
ExtOf(p, from, end, startPart, startDot) ==
    IF end = -1 \/ NoExtension(p, from, end, startPart, startDot)
    THEN ""
    ELSE Slice(p, startDot, end)

\* path.parse: the base field
BaseOf(p, from, end) == IF end = -1 THEN "" ELSE Slice(p, from, end)

\* path.parse: the dir field
DirOf(p, root, cut) ==
    IF cut > 0 THEN Slice(p, 0, cut - 1) ELSE Slice(p, 0, root)

ParsedPath(p, root, cut, from, end, startPart, startDot) ==
    [ root |-> Slice(p, 0, root),
      dir  |-> DirOf(p, root, cut),
      base |-> BaseOf(p, from, end),
      ext  |-> ExtOf(p, from, end, startPart, startDot),
      name |-> NameOf(p, from, end, startPart, startDot) ]

ParseBase(os, p, root, cut, from, end) ==
    ParsedPath(p, root, cut, from, end, StartPart(os, root, cut),
               DotOf(p, from, end))

ParseAt(os, p, root, cut, end) ==
    ParseBase(os, p, root, cut, BaseFrom(root, cut), end)

ParseRoot(os, p, root, end) ==
    ParseAt(os, p, root, BaseCut(os, p, root, end), end)

\* path.parse
PathParse(os, p) ==
    ParseRoot(os, p, RootLength(os, p), BaseEnd(os, p, RootLength(os, p)))

\* The segments of p between its separators, the empty ones too.
RECURSIVE Segments(_, _)
Segments(os, p) ==
    IF ScanTo(os, p, 0, TRUE) = Len(p) THEN <<p>>
    ELSE <<Slice(p, 0, ScanTo(os, p, 0, TRUE))>>
         \o Segments(os, Slice(p, ScanTo(os, p, 0, TRUE) + 1, Len(p)))

\* normalizeString, one segment at a time: empty and "." segments are left
\* out, ".." takes the segment before it away, or stays when there is none
\* to take and the path is not absolute.
RECURSIVE Resolved(_, _, _)
Resolved(segments, res, allowAboveRoot) ==
    IF segments = <<>> THEN res
    ELSE IF Head(segments) \in {"", "."}
         THEN Resolved(Tail(segments), res, allowAboveRoot)
    ELSE IF Head(segments) /= ".."
         THEN Resolved(Tail(segments), Append(res, Head(segments)), allowAboveRoot)
    ELSE IF res /= <<>> /\ res[Len(res)] /= ".."
         THEN Resolved(Tail(segments), SubSeq(res, 1, Len(res) - 1), allowAboveRoot)
    ELSE IF allowAboveRoot
         THEN Resolved(Tail(segments), Append(res, ".."), allowAboveRoot)
    ELSE Resolved(Tail(segments), res, allowAboveRoot)

\* normalizeString
NormalizeString(os, p, allowAboveRoot) ==
    Join(Resolved(Segments(os, p), <<>>, allowAboveRoot), NativeSeparator(os))

\* path ends in a separator
TrailingSeparator(os, p) == CharAt(p, Len(p) - 1) \in Separators(os)

\* path.posix.normalize, after normalizeString gave tail
PosixNormalized(p, isAbsolute, tail) ==
    IF tail = ""
    THEN (IF isAbsolute THEN "/"
          ELSE IF TrailingSeparator("linux", p) THEN "./" ELSE ".")
    ELSE (IF isAbsolute THEN "/" ELSE "") \o tail
         \o (IF TrailingSeparator("linux", p) THEN "/" ELSE "")

PosixNormalize(p, isAbsolute) ==
    PosixNormalized(p, isAbsolute, NormalizeString("linux", p, ~isAbsolute))

\* String.prototype.indexOf of one character, -1 when s does not hold it
IndexOf(s, char) ==
    LET hits == {i \in 0..(Len(s) - 1) : CharAt(s, i) = char}
    IN  IF hits = {} THEN -1 ELSE CHOOSE i \in hits : \A j \in hits : i <= j

\* String.prototype.slice(0, to), where a negative to counts from the end
SliceTo(s, to) ==
    IF to < 0 THEN Slice(s, 0, Len(s) + to)
    ELSE IF to > Len(s) THEN s
    ELSE Slice(s, 0, to)

LowerCase == "abcdefghijklmnopqrstuvwxyz"

UpperCase == "ABCDEFGHIJKLMNOPQRSTUVWXYZ"

\* WINDOWS_RESERVED_NAMES
WindowsReservedNames ==
    {"CON", "PRN", "AUX", "NUL"}
    \cup {"COM" \o d : d \in {"1", "2", "3", "4", "5", "6", "7", "8", "9"}}
    \cup {"LPT" \o d : d \in {"1", "2", "3", "4", "5", "6", "7", "8", "9"}}
    \cup {"COM¹", "COM²", "COM³", "LPT¹", "LPT²", "LPT³"}

\* s.toUpperCase() === name, for a name of WINDOWS_RESERVED_NAMES.  The only
\* characters whose upper case is a letter of these names are that letter
\* and its lower case; a digit, or a superscript digit, is the upper case of
\* itself alone; and no character whose upper case is longer than itself
\* gives text of these names.
UpperCaseIs(s, name) ==
    /\ Len(s) = Len(name)
    /\ \A i \in 0..(Len(name) - 1) :
         \/ CharAt(s, i) = CharAt(name, i)
         \/ /\ IndexOf(UpperCase, CharAt(name, i)) /= -1
            /\ CharAt(s, i) = CharAt(LowerCase, IndexOf(UpperCase, CharAt(name, i)))

\* isWindowsReservedName(path, colonIndex): the upper case of
\* path.slice(0, colonIndex) is the name of a device
IsWindowsReservedName(path, colonIndex) ==
    \E name \in WindowsReservedNames : UpperCaseIs(SliceTo(path, colonIndex), name)

\* path.win32.normalize: the first part of a matched UNC root
UncFirstPart(p) == Slice(p, 2, UncServerEnd(p))

\* path.win32.normalize: a device root is matched, \\.\ or \\?\
IsDeviceNamespace(p) == IsUnc(p) /\ UncFirstPart(p) \in {".", "?"}

\* path.win32.normalize: the path does not start with a separator and the
\* name of a device stands before its first colon, which is not that of a
\* drive
StartsWithReservedName(p) ==
    /\ CharAt(p, 0) \notin Separators("win32")
    /\ IndexOf(p, ":") > 0
    /\ ~IsDevice(p)
    /\ IsWindowsReservedName(p, IndexOf(p, ":"))

\* path.win32.normalize: device
Win32Device(p) ==
    IF IsDeviceNamespace(p)
    THEN Some("\\\\" \o UncFirstPart(p))
    ELSE IF IsUnc(p)
    THEN Some("\\\\" \o UncFirstPart(p) \o "\\"
              \o Slice(p, UncShareStart(p), UncShareEnd(p)))
    ELSE IF IsDevice(p)
    THEN Some(Slice(p, 0, 2))
    ELSE IF StartsWithReservedName(p)
    THEN Some(Slice(p, 0, IndexOf(p, ":") + 1))
    ELSE None

\* path.win32.normalize: rootEnd
Win32RootEnd(p) ==
    IF CharAt(p, 0) \in Separators("win32")
    THEN IF CharAt(p, 1) \in Separators("win32")
         THEN (IF IsDeviceNamespace(p) THEN 4
               ELSE IF IsUnc(p) THEN UncShareEnd(p)
               ELSE 0)
         ELSE 1
    ELSE IF IsDevice(p)
         THEN (IF CharAt(p, 2) \in Separators("win32") THEN 3 ELSE 2)
    ELSE IF StartsWithReservedName(p) THEN IndexOf(p, ":") + 1
    ELSE 0

\* path.win32.normalize: isAbsolute
Win32Absolute(p) ==
    \/ CharAt(p, 0) \in Separators("win32")
    \/ IsDevice(p) /\ CharAt(p, 2) \in Separators("win32")

\* path.win32.normalize: tail, with "." for an empty relative one and the
\* trailing separator kept
Win32Tail(p, isAbsolute, tail) ==
    IF tail = ""
    THEN (IF isAbsolute THEN ""
          ELSE IF TrailingSeparator("win32", p) THEN ".\\" ELSE ".")
    ELSE tail \o (IF TrailingSeparator("win32", p) THEN "\\" ELSE "")

\* path.win32.normalize: a colon of path is its last character or stands
\* before a separator
ColonBeforeSeparator(p) ==
    \E i \in 0..(Len(p) - 1) :
        /\ CharAt(p, i) = ":"
        /\ i = Len(p) - 1 \/ CharAt(p, i + 1) \in Separators("win32")

\* path.win32.normalize: the path is relative and without a device, but
\* Windows might read the normalized tail as an absolute path
MistakenForAbsolute(p, device, isAbsolute, tail) ==
    /\ ~isAbsolute
    /\ device = None
    /\ IndexOf(p, ":") /= -1
    /\ IsDevice(tail) \/ ColonBeforeSeparator(p)

\* path.win32.normalize, after normalizeString gave tail
Win32Normalized(p, device, isAbsolute, tail) ==
    IF MistakenForAbsolute(p, device, isAbsolute, tail) THEN ".\\" \o tail
    ELSE IF IsWindowsReservedName(p, IndexOf(p, ":"))
         THEN ".\\" \o (IF device = None THEN "" ELSE device[1]) \o tail
    ELSE (IF device = None THEN "" ELSE device[1])
         \o (IF isAbsolute THEN "\\" ELSE "")
         \o tail

Win32NormalizeFrom(p, rootEnd, isAbsolute) ==
    Win32Normalized(p, Win32Device(p), isAbsolute,
        Win32Tail(p, isAbsolute,
            IF rootEnd < Len(p)
            THEN NormalizeString("win32", Slice(p, rootEnd, Len(p)), ~isAbsolute)
            ELSE ""))

\* path.normalize
PathNormalize(os, p) ==
    IF p = "" THEN "."
    ELSE IF os /= "win32" THEN PosixNormalize(p, CharAt(p, 0) = "/")
    ELSE IF Len(p) = 1 THEN (IF p = "/" THEN "\\" ELSE p)
    ELSE IF IsUnc(p) /\ ~IsDeviceNamespace(p) /\ UncShareEnd(p) = Len(p)
         THEN "\\\\" \o Slice(p, 2, UncServerEnd(p)) \o "\\"
              \o Slice(p, UncShareStart(p), Len(p)) \o "\\"
    ELSE Win32NormalizeFrom(p, Win32RootEnd(p), Win32Absolute(p))

\* path.join: the non-empty arguments with the separator between them
Joined(os, a, b) ==
    IF a = "" THEN b
    ELSE IF b = "" THEN a
    ELSE a \o NativeSeparator(os) \o b

\* path.win32.join: the first non-empty argument starts with exactly two
\* separators, so it is meant as a UNC path
MeantAsUnc(firstPart) ==
    /\ Len(firstPart) > 2
    /\ CharAt(firstPart, 0) \in Separators("win32")
    /\ CharAt(firstPart, 1) \in Separators("win32")
    /\ CharAt(firstPart, 2) \notin Separators("win32")

\* path.join: the first non-empty argument
FirstPart(a, b) == IF a = "" THEN b ELSE a

\* path.win32.join: two or more separators at the start become one, unless a
\* UNC path is meant
Win32Joined(firstPart, joined) ==
    IF ~MeantAsUnc(firstPart) /\ ScanTo("win32", joined, 0, FALSE) >= 2
    THEN "\\" \o Slice(joined, ScanTo("win32", joined, 0, FALSE), Len(joined))
    ELSE joined

\* path.join(a, b)
PathJoin(os, a, b) ==
    IF Joined(os, a, b) = "" THEN "."
    ELSE IF os = "win32"
         THEN PathNormalize(os, Win32Joined(FirstPart(a, b), Joined(os, a, b)))
    ELSE PathNormalize(os, Joined(os, a, b))

-----------------------------------------------------------------------------
(* Launcher: the debugger guess of debugCurrentTarget *)

\* util.checkFileExistsSync
CheckFileExistsSync(disk, file) == file \in disk

\* The other debugger, when the first chosen one is not installed.
OtherMiMode(miMode) == IF miMode = "gdb" THEN "lldb" ELSE "gdb"

\* The path probed and, later, reported for a debugger.
DebuggerFile(os, miDebuggerPath, miMode) ==
    LET debuggerPath == PathJoin(os, miDebuggerPath, miMode)
    IN  IF os = "win32" THEN debuggerPath \o ".exe" ELSE debuggerPath

\* isClangCompiler
IsClangCompiler(name) == StartsWith(name, "clang")

\* isMsvcCompiler without the exclusion of clang
IsMsvcCompilerByPrefix(name) == StartsWith(name, "cl")

\* isMsvcCompiler
IsMsvcCompiler(name) == ~IsClangCompiler(name) /\ StartsWith(name, "cl")

\* Initial debugger guess
InitialMiMode(name) ==
    IF StartsWith(name, "clang") THEN Some("lldb")
    ELSE IF ~StartsWith(name, "cl") THEN Some("gdb")
    ELSE None

\* the MAC-lldb exception never taken
NeverOmitDebuggerPath(os, miMode) == FALSE

\* Exception for MAC-lldb
OmitDebuggerPath(os, miMode) == miMode = Some("lldb") /\ os = "darwin"

\* parsedObjPath
ParsedObjPath(os, compiler) ==
    IF Truthy(compiler) THEN Some(PathParse(os, compiler[1])) ELSE None

\* isMsvcCompiler, of parsedObjPath
MsvcCompiler(parsed) == parsed /= None /\ IsMsvcCompiler(parsed[1].name)

\* dbg
DebugType(parsed) == IF MsvcCompiler(parsed) THEN "cppvsdbg" ELSE "cppdbg"

\* miDebuggerPath, as first set: the directory of the compiler
CompilerDir(parsed) ==
    IF ~MsvcCompiler(parsed) /\ parsed /= None THEN Some(parsed[1].dir) ELSE None

\* miMode, as first set
GuessedMiMode(parsed) ==
    IF parsed /= None THEN InitialMiMode(parsed[1].name) ELSE Some("gdb")

\* If the first chosen debugger is not installed, try the other one: the calls
\* of checkFileExistsSync
Probes(os, dir, guess) ==
    IF Truthy(dir) /\ guess /= None
    THEN <<DebuggerFile(os, dir[1], guess[1])>>
    ELSE <<>>

\* the first guess kept whatever the probe says
UnprobedMiMode(guess, probes, disk) == guess

\* miMode after the probe
ProbedMiMode(guess, probes, disk) ==
    IF probes /= <<>> /\ ~CheckFileExistsSync(disk, probes[1])
    THEN Some(OtherMiMode(guess[1]))
    ELSE guess

\* miDebuggerPath, as passed to the debugger
FinalDebuggerPath(os, dir, miMode) ==
    IF OmitDebuggerPath(os, miMode) THEN None
    ELSE IF Truthy(dir) /\ miMode /= None
         THEN Some(DebuggerFile(os, dir[1], miMode[1]))
         ELSE dir

DebuggerChoice(os, parsed, dir, miMode, probes) ==
    [type |-> DebugType(parsed), miMode |-> miMode,
     miDebuggerPath |-> FinalDebuggerPath(os, dir, miMode), probes |-> probes]

ProbeAndChoose(os, parsed, dir, guess, probes, disk) ==
    DebuggerChoice(os, parsed, dir, ProbedMiMode(guess, probes, disk), probes)

GuessAndProbe(os, parsed, dir, guess, disk) ==
    ProbeAndChoose(os, parsed, dir, guess, Probes(os, dir, guess), disk)

SelectParsed(os, parsed, disk) ==
    GuessAndProbe(os, parsed, CompilerDir(parsed), GuessedMiMode(parsed), disk)

\* debugCurrentTarget, from reading the compiler path to the final miMode and
\* miDebuggerPath; probes are the calls of checkFileExistsSync it made.
SelectDebugger(os, compiler, disk) ==
    SelectParsed(os, ParsedObjPath(os, compiler), disk)

-----------------------------------------------------------------------------
(* Launcher: what the handlers read *)

LaunchConfigurations ==
    { None,
      Some([binary |-> "/ws/my app", cwd |-> "/ws/out", args |-> <<"-v", "in.txt">>]) }

WorkspaceFolders == {None, Some(<<"ws">>)}

DebuggerNames == {"gdb", "lldb", "gdb.exe", "lldb.exe"}

\* The compiler path the extension reports (undefined when it knows none),
\* the family its base name puts it in ("clang...": clang, any other "cl...":
\* msvc, anything else: gcc), and the directory of the compiler as the file
\* system of each platform names its files: the text in front of the name of
\* a file in that directory, undefined when the path has no directory part
\* on that platform.  The debuggers installed next to the compiler are the
\* files of that directory.
Installs ==
    { [compiler |-> None,                      family |-> "none",
       posix |-> None,                win32 |-> None],
      [compiler |-> Some(""),                  family |-> "none",
       posix |-> None,                win32 |-> None],
      [compiler |-> Some("gcc"),               family |-> "gcc",
       posix |-> None,                win32 |-> None],
      [compiler |-> Some("clang"),             family |-> "clang",
       posix |-> None,                win32 |-> None],
      [compiler |-> Some("cl.exe"),            family |-> "msvc",
       posix |-> None,                win32 |-> None],
      [compiler |-> Some("./gcc"),             family |-> "gcc",
       posix |-> Some(""),            win32 |-> Some("")],
      [compiler |-> Some("/usr/bin/gcc"),      family |-> "gcc",
       posix |-> Some("/usr/bin/"),   win32 |-> Some("\\usr\\bin\\")],
      [compiler |-> Some("/usr/bin/gcc-9.3"),  family |-> "gcc",
       posix |-> Some("/usr/bin/"),   win32 |-> Some("\\usr\\bin\\")],
      [compiler |-> Some("/usr/bin/clang-14"), family |-> "clang",
       posix |-> Some("/usr/bin/"),   win32 |-> Some("\\usr\\bin\\")],
      [compiler |-> Some("/clang++"),          family |-> "clang",
       posix |-> Some("/"),           win32 |-> Some("\\")],
      [compiler |-> Some("/opt/vs/clarion"),   family |-> "msvc",
       posix |-> Some("/opt/vs/"),    win32 |-> Some("\\opt\\vs\\")],
      [compiler |-> Some("C:/msvc/bin/cl.exe"), family |-> "msvc",
       posix |-> Some("C:/msvc/bin/"), win32 |-> Some("C:\\msvc\\bin\\")],
      [compiler |-> Some("C:/llvm/clang.exe"), family |-> "clang",
       posix |-> Some("C:/llvm/"),    win32 |-> Some("C:\\llvm\\")],
      [compiler |-> Some("C:/mingw/bin/gcc.exe"), family |-> "gcc",
       posix |-> Some("C:/mingw/bin/"), win32 |-> Some("C:\\mingw\\bin\\")],
      [compiler |-> Some("C:\\mingw\\bin\\g++.exe"), family |-> "gcc",
       posix |-> None,                win32 |-> Some("C:\\mingw\\bin\\")],
      [compiler |-> Some("tools:/bin/gcc"),    family |-> "gcc",
       posix |-> Some("tools:/bin/"), win32 |-> Some(".\\tools:\\bin\\")],
      [compiler |-> Some("CON:/gcc"),          family |-> "gcc",
       posix |-> Some("CON:/"),       win32 |-> Some(".\\CON:")],
      [compiler |-> Some("//./pipe/gcc"),      family |-> "gcc",
       posix |-> Some("/pipe/"),      win32 |-> Some("\\\\.\\pipe\\")],
      [compiler |-> Some("//?/COM1:x/gcc"),    family |-> "gcc",
       posix |-> Some("/?/COM1:x/"),  win32 |-> Some("\\\\?\\COM1:x\\")],
      [compiler |-> Some("//server/share/bin/gcc"), family |-> "gcc",
       posix |-> Some("/server/share/bin/"),
       win32 |-> Some("\\\\server\\share\\bin\\")],
      [compiler |-> Some("\\\\server\\share\\gcc.exe"), family |-> "gcc",
       posix |-> None,                win32 |-> Some("\\\\server\\share\\")] }

\* The directory of the compiler of an install, as the platform names its
\* files.
BinOf(os, install) == IF os = "win32" THEN install.win32 ELSE install.posix

\* The debuggers that may exist next to the compiler of an install.
DebuggersOf(os, install) ==
    {OrElse(BinOf(os, install), "") \o n : n \in DebuggerNames}

-----------------------------------------------------------------------------
(* Launcher *)

\* launchTargetPath
LaunchTargetPath(launchConfiguration) ==
    IF launchConfiguration /= None THEN launchConfiguration[1].binary ELSE ""

\* launchCurrentDir
LaunchCurrentDir(launchConfiguration, rootPath) ==
    IF launchConfiguration /= None THEN launchConfiguration[1].cwd
    ELSE OrElse(rootPath, "")

\* launchTargetArgs
LaunchTargetArgs(launchConfiguration) ==
    IF launchConfiguration /= None THEN launchConfiguration[1].args ELSE <<>>

\* launchTargetArgsConcat
LaunchTargetArgsConcat(launchConfiguration) ==
    Join(LaunchTargetArgs(launchConfiguration), " ")

NoLaunchConfigurationError == "Currently there is no launch configuration set."

NoLaunchConfigurationLog ==
    "Cannot start debugging because there is no launch configuration set. "
    \o "Define one in the settings file or use the Makefile.setLaunchConfigurationCommand"

\* debugCurrentTarget: a launch configuration is set, so the handler goes on
DebugProceeds(launchConfiguration) == launchConfiguration /= None

\* vscode.debug.activeDebugSession, as it may be when it is read
ActiveDebugSessions == {None, Some("session 1"), Some("session 2")}

\* debugCurrentTarget, up to its return or its await
DebugCurrentTarget ==
    /\ \E launchConfiguration \in LaunchConfigurations,
          workspaceFolders \in WorkspaceFolders :
         LET input == [launchConfiguration |-> launchConfiguration]
         IN  IF ~DebugProceeds(launchConfiguration)
             THEN /\ last' = [Quiet("debugCurrentTarget", input) EXCEPT
                      !.errors = <<NoLaunchConfigurationError>>,
                      !.log = <<NoLaunchConfigurationLog>>]
                  /\ UNCHANGED debugging
             ELSE /\ debugging < MaxDebugging
                  /\ debugging' = debugging + 1
                  /\ LET choice == SelectDebugger(platform, compilerPath, files)
                         debugConfig ==
                             [type |-> choice.type,
                              name |-> "Debug My Program",
                              request |-> "launch",
                              cwd |-> "${command:Makefile.launchCurrentDir}",
                              args |-> LaunchTargetArgs(launchConfiguration),
                              program |-> "${command:Makefile.launchTargetPath}",
                              miMode |-> choice.miMode,
                              miDebuggerPath |-> choice.miDebuggerPath]
                         startFolder == IF workspaceFolders /= None
                                        THEN Some(workspaceFolders[1][1])
                                        ELSE None
                     IN  last' = [Quiet("debugCurrentTarget", input) EXCEPT
                             !.probes = choice.probes,
                             !.debug = <<[folder |-> startFolder, config |-> debugConfig]>>]
    /\ UNCHANGED <<procs, launchTerminal, terminals, closedTerminals, disposed, host>>

\* debugCurrentTarget, after its await: vscode.debug.startDebugging has
\* resolved, and the handler returns the debug session that is active now
DebugCurrentTargetReturned ==
    /\ debugging > 0
    /\ debugging' = debugging - 1
    /\ \E activeDebugSession \in ActiveDebugSessions :
         last' = [Quiet("debugCurrentTargetReturned", activeDebugSession) EXCEPT
                     !.result = Some(activeDebugSession)]
    /\ UNCHANGED <<procs, launchTerminal, terminals, closedTerminals, disposed, host>>

\* debugCurrentTarget, after its await: vscode.debug.startDebugging has
\* rejected; nothing catches that, so the handler ends without a value
DebugCurrentTargetRejected ==
    /\ debugging > 0
    /\ debugging' = debugging - 1
    /\ last' = Quiet("debugCurrentTargetRejected", None)
    /\ UNCHANGED <<procs, launchTerminal, terminals, closedTerminals, disposed, host>>

\* The terminal of the user, which the launcher did not create.
UserTerminal == 0

OpenTerminals == ({UserTerminal} \cup 1..terminals) \ closedTerminals

\* onTerminalClose leaving the stored handle as it is
HandleKeptAfterClose(handle, term) == handle

\* onTerminalClose: the stored handle after terminal term was closed
HandleAfterClose(handle, term) == IF Some(term) = handle THEN None ELSE handle

\* The user closes a terminal; while the launcher's listener is registered,
\* onTerminalClose runs.
OnTerminalClose ==
    /\ \E term \in OpenTerminals :
         /\ closedTerminals' = closedTerminals \cup {term}
         /\ launchTerminal' = IF disposed THEN launchTerminal
                              ELSE HandleAfterClose(launchTerminal, term)
         /\ last' = Quiet("onTerminalClose", term)
    /\ UNCHANGED <<procs, terminals, disposed, debugging, host>>

\* runCurrentTarget: a terminal has to be created
NeedsTerminal(handle) == handle = None

\* runCurrentTarget: a launch configuration is set, so the command is sent
RunProceeds(launchConfiguration) == launchConfiguration /= None

RunCurrentTarget ==
    /\ \E launchConfiguration \in LaunchConfigurations, rootPath \in RootPaths :
         LET terminalOptions ==
                 IF platform = "win32"
                 THEN [name |-> "Make/Launch",
                       shellPath |-> "C:\\Windows\\System32\\cmd.exe",
                       cwd |-> LaunchCurrentDir(launchConfiguration, rootPath)]
                 ELSE [name |-> "Make/Launch"]
             create == NeedsTerminal(launchTerminal)
             term == IF create THEN terminals + 1 ELSE launchTerminal[1]
             input == [launchConfiguration |-> launchConfiguration,
                       handle |-> launchTerminal, disposed |-> disposed]
             terminalCommand == "\"" \o LaunchTargetPath(launchConfiguration) \o "\" "
                                \o Join(LaunchTargetArgs(launchConfiguration), " ")
             made == IF create THEN <<[terminal |-> term, options |-> terminalOptions]>>
                     ELSE <<>>
         IN  /\ create => terminals < MaxTerminals
             /\ terminals' = IF create THEN terminals + 1 ELSE terminals
             /\ launchTerminal' = Some(term)
             /\ IF ~RunProceeds(launchConfiguration)
                THEN last' = [Quiet("runCurrentTarget", input) EXCEPT
                         !.errors = <<NoLaunchConfigurationError>>,
                         !.log = <<NoLaunchConfigurationLog>>,
                         !.created = made,
                         !.result = Some(term)]
                ELSE last' = [Quiet("runCurrentTarget", input) EXCEPT
                         !.created = made,
                         !.sent = <<[terminal |-> term, text |-> terminalCommand,
                                     closed |-> term \in closedTerminals]>>,
                         !.shown = <<term>>,
                         !.result = Some(term)]
    /\ UNCHANGED <<procs, closedTerminals, disposed, debugging, host>>

\* dispose: the stored terminal and the close listener are disposed,
\* whenever it is called
Dispose ==
    /\ disposed' = TRUE
    /\ closedTerminals' = IF launchTerminal /= None
                          THEN closedTerminals \cup {launchTerminal[1]}
                          ELSE closedTerminals
    /\ last' = Quiet("dispose", launchTerminal)
    /\ UNCHANGED <<procs, launchTerminal, terminals, debugging, host>>

-----------------------------------------------------------------------------
\* The extension has been activated: no child process, no terminal.
Activated ==
    /\ procs = EmptyBag
    /\ launchTerminal = None
    /\ terminals = 0
    /\ closedTerminals = {}
    /\ disposed = FALSE
    /\ debugging = 0
    /\ last = Quiet("activate", None)

\* Any platform, any compiler, any set of debuggers next to it.
AnyHost ==
    /\ platform \in Platforms
    /\ \E install \in Installs :
         /\ compilerPath = install.compiler
         /\ files \in SUBSET DebuggersOf(platform, install)

\* Any platform; no compiler or gcc, with every debugger next to it.
SomeHost ==
    /\ platform \in Platforms
    /\ \E install \in Installs :
         /\ install.compiler \in {None, Some("/usr/bin/gcc")}
         /\ compilerPath = install.compiler
         /\ files = DebuggersOf(platform, install)

(* make.ts: build, build-log parsing and dry-run, with their child          *)
(* processes; none of them reads the host                                   *)

InitMake ==
    /\ Activated
    /\ platform = "linux"
    /\ compilerPath = None
    /\ files = {}

NextMake ==
    \/ PrepareBuildCurrentTarget
    \/ BuildCurrentTarget
    \/ BuildRejected
    \/ BuildStdout
    \/ BuildStderr
    \/ BuildClosing
    \/ ParseBuild
    \/ ParseBuildOrDryRun
    \/ DryRunRejected
    \/ DryRunStdout
    \/ DryRunStderr
    \/ DryRunClosing

SpecMake == InitMake /\ [][NextMake]_vars

(* The debugger guess, on every host *)

InitDebugger == Activated /\ AnyHost

NextDebugger ==
    \/ DebugCurrentTarget
    \/ DebugCurrentTargetReturned
    \/ DebugCurrentTargetRejected

SpecDebugger == InitDebugger /\ [][NextDebugger]_vars

(* The commands that need a configuration: debug, run in terminal (with the *)
(* life of its terminal) and the pre-configure script                       *)

InitCommands == Activated /\ SomeHost

NextCommands ==
    \/ DebugCurrentTarget
    \/ DebugCurrentTargetReturned
    \/ DebugCurrentTargetRejected
    \/ RunCurrentTarget
    \/ OnTerminalClose
    \/ Dispose
    \/ RunPreconfigureScript
    \/ PreconfigureRejected
    \/ PreconfigureStdout
    \/ PreconfigureStderr
    \/ PreconfigureClosing

SpecCommands == InitCommands /\ [][NextCommands]_vars

-----------------------------------------------------------------------------
(* Properties *)

\* The argument list the build tool is to be given, with `first` the target
\* argument (empty or one element).
Assembled(first, input) ==
    first \o input.makeArgs
    \o (IF input.dryRun
        THEN <<"--dry-run">>
             \o (IF input.dryRunSwitches = None THEN <<>> ELSE input.dryRunSwitches[1])
        ELSE <<>>)

\* A handler has just assembled an argument list: prepareBuildCurrentTarget,
\* on its own or in buildCurrentTarget, or the dry-run branch of
\* parseBuildOrDryRun.
HasAssembled ==
    \/ last.op \in {"prepareBuildCurrentTarget", "buildCurrentTarget"}
    \/ last.op = "parseBuildOrDryRun" /\ last.spawns /= <<>>

\* The argument list it assembled: what prepareBuildCurrentTarget returns
\* when called on its own, and otherwise what the spawner is given by the one
\* call made to it.
AssembledArgs ==
    IF last.op = "prepareBuildCurrentTarget" THEN last.result
    ELSE IF Len(last.spawns) = 1 THEN Some(last.spawns[1].args)
    ELSE None

\* C1, as stated: the assembled argument list is [target, if present] ++
\* configuredArgs ++ (if dryRun then ["--dry-run"] ++ extraFlags else []), for
\* the real build and for the dry-run, and it is what the spawner is given.
C1_AssembledWithAnyTarget ==
    HasAssembled =>
        AssembledArgs = Some(Assembled(last.input.currentTarget, last.input))

\* C1, amended: the target is the first argument when it is present and not
\* the empty string; an empty target is left out like an absent one.
C1_AssembledArgs ==
    HasAssembled =>
        AssembledArgs =
            Some(Assembled(IF last.input.currentTarget \in {None, Some("")}
                           THEN <<>>
                           ELSE last.input.currentTarget,
                           last.input))

\* A dry-run was assembled from a target, two configured arguments and two
\* extra dry-run switches.
C1_Witness ==
    /\ HasAssembled
    /\ last.spawns /= <<>>
    /\ last.input.dryRun
    /\ last.input.currentTarget = Some("all")
    /\ Len(last.input.makeArgs) = 2
    /\ last.input.dryRunSwitches /= None
    /\ Len(last.spawns[1].args) = 6

\* The configured build log is there to be parsed: a path is configured and
\* the file at that path exists and is not empty.
LogToParse(buildLog) ==
    /\ buildLog.path \notin {None, Some("")}
    /\ buildLog.file \notin {None, Some("")}

\* The text a process wrote to one of its streams: the fragments of that
\* stream, in the order of their arrival.
RECURSIVE Captured(_, _)
Captured(arrived, stream) ==
    IF arrived = <<>> THEN ""
    ELSE (IF arrived[1][1] = stream THEN arrived[1][2] ELSE "")
         \o Captured(Tail(arrived), stream)

\* C2: parseBuildOrDryRun does not call the spawner when a non-empty build log
\* exists at the configured path, and then hands the whole log to the provider
\* and stops; in every other case it spawns the dry-run, hands nothing to the
\* provider itself, and the provider receives the captured stdout when the
\* dry-run closes.
C2_LogOrDryRun ==
    /\ last.op = "parseBuildOrDryRun" =>
         IF LogToParse(last.input.buildLog)
         THEN /\ last.spawns = <<>>
              /\ last.provider = last.input.buildLog.file
         ELSE /\ Len(last.spawns) = 1
              /\ "--dry-run" \in {last.spawns[1].args[i] : i \in 1..Len(last.spawns[1].args)}
              /\ last.provider = <<>>
    /\ last.op = "dryRunClosing" =>
         last.provider = <<Captured(last.input.arrived, "stdout")>>

\* C3: when the dry-run closes, the dry-run cache is written with exactly the
\* stdout fragments received, in arrival order and with no stderr text, the
\* same text is handed to the provider, and reportDryRunError is called once
\* when the exit code is not 0 and not at all when it is 0.
C3_DryRunClosing ==
    last.op = "dryRunClosing" =>
        /\ Len(last.writes) = 1
        /\ last.writes[1].file = last.input.dryrunCache.path
        /\ last.writes[1].data = Captured(last.input.arrived, "stdout")
        /\ last.provider = <<last.writes[1].data>>
        /\ last.reports = (IF last.input.retCode = 0 THEN 0 ELSE 1)

-----------------------------------------------------------------------------
(* Properties of the debugger guess *)

\* The install the host was set up from.
Install == CHOOSE i \in Installs : i.compiler = compilerPath

\* The directory of the compiler (what stands in front of the name of a file
\* in it), undefined for a compiler path without a directory part.
Bin == BinOf(platform, Install)

Exe == IF platform = "win32" THEN ".exe" ELSE ""

Preferred == IF Install.family = "clang" THEN "lldb" ELSE "gdb"

Alternate == IF Preferred = "gdb" THEN "lldb" ELSE "gdb"

\* debugCurrentTarget has started a debug session.
Debugging == last.op = "debugCurrentTarget" /\ last.debug /= <<>>

Chosen == last.debug[1].config

\* C4: for a Clang-family or GCC-family compiler in a directory, exactly one
\* file is probed, <compilerDir>/<preferred> (with .exe on Windows); the
\* backend is the preferred one when that file exists and the other one when
\* it does not, also when the other debugger is missing too.  /usr/bin/gcc
\* with /usr/bin/gdb missing and /usr/bin/lldb present gives lldb at
\* /usr/bin/lldb on Linux.
C4_OneProbe ==
    Debugging =>
        /\ (Install.family \in {"clang", "gcc"} /\ Bin /= None) =>
             /\ last.probes = <<Bin[1] \o Preferred \o Exe>>
             /\ Chosen.miMode =
                  (IF Bin[1] \o Preferred \o Exe \in files
                   THEN Some(Preferred)
                   ELSE Some(Alternate))
        /\ ( /\ platform = "linux"
             /\ compilerPath = Some("/usr/bin/gcc")
             /\ "/usr/bin/gdb" \notin files
             /\ "/usr/bin/lldb" \in files ) =>
             /\ Chosen.miMode = Some("lldb")
             /\ Chosen.miDebuggerPath = Some("/usr/bin/lldb")

\* /usr/bin/gcc on Linux with neither gdb nor lldb installed: one probe, and
\* the backend is lldb.
C4_Witness ==
    /\ Debugging
    /\ platform = "linux"
    /\ compilerPath = Some("/usr/bin/gcc")
    /\ files = {"/usr/bin/gdb.exe"}
    /\ last.probes = <<"/usr/bin/gdb">>
    /\ Chosen.miMode = Some("lldb")

\* C7: a compiler whose base name begins with "cl" but not with "clang" gets
\* the native backend (cppvsdbg) with no miMode and no debugger path, and no
\* file is probed, on every platform and whatever exists on disk; a compiler
\* whose base name begins with "clang" never gets the native backend.
C7_Msvc ==
    Debugging =>
        /\ Install.family = "msvc" =>
             /\ Chosen.type = "cppvsdbg"
             /\ Chosen.miMode = None
             /\ Chosen.miDebuggerPath = None
             /\ last.probes = <<>>
        /\ Install.family = "clang" => Chosen.type /= "cppvsdbg"

\* C:/msvc/bin/cl.exe on Windows with every debugger installed next to it.
C7_Witness ==
    /\ Debugging
    /\ platform = "win32"
    /\ compilerPath = Some("C:/msvc/bin/cl.exe")
    /\ Cardinality(files) = 4
    /\ Chosen.type = "cppvsdbg"

\* C8: on macOS, whenever the final backend is lldb, the debugger path is
\* unresolved.
C8_MacLldb ==
    (Debugging /\ platform = "darwin" /\ Chosen.miMode = Some("lldb")) =>
        Chosen.miDebuggerPath = None

\* /usr/bin/gcc on macOS without gdb: the swap makes the backend lldb.
C8_Witness ==
    /\ Debugging
    /\ platform = "darwin"
    /\ compilerPath = Some("/usr/bin/gcc")
    /\ files = {"/usr/bin/lldb"}
    /\ Chosen.miMode = Some("lldb")
    /\ Chosen.miDebuggerPath = None

\* The final backend is lldb on macOS.
MacLldb == platform = "darwin" /\ Chosen.miMode = Some("lldb")

\* C9, as stated: for every input that is not MSVC-family (a compiler in a
\* directory, a bare compiler name, no compiler path), the debugger path is
\* unresolved only when the final backend is lldb on macOS, and is otherwise
\* the compiler's directory joined with the name of the returned backend, with
\* .exe on Windows, so that the file name of the path is the name of the
\* returned backend.
C9_PathForEveryInput ==
    (Debugging /\ Install.family /= "msvc") =>
        /\ Chosen.miMode \in {Some("gdb"), Some("lldb")}
        /\ Chosen.miDebuggerPath =
             (IF MacLldb THEN None
              ELSE Some(OrElse(Bin, "") \o Chosen.miMode[1] \o Exe))
        /\ Chosen.miDebuggerPath /= None =>
             PathParse(platform, Chosen.miDebuggerPath[1]).base
                 = Chosen.miMode[1] \o Exe

-----------------------------------------------------------------------------
(* Properties of the commands *)

\* C5: run-in-terminal never sends its command to a closed terminal.  Until
\* the launcher is disposed, the stored handle is never a closed terminal (a
\* close resets it); a run that finds no handle creates a terminal that did
\* not exist before, stores it and writes to it; and the stored handle is one
\* terminal the launcher created, or none.
C5_NoStaleTerminal ==
    /\ (~disposed /\ launchTerminal /= None) =>
         launchTerminal[1] \notin closedTerminals
    /\ launchTerminal \in {None} \cup {Some(t) : t \in 1..terminals}
    /\ (last.op = "runCurrentTarget" /\ ~last.input.disposed) =>
         /\ \A i \in 1..Len(last.sent) :
              /\ ~last.sent[i].closed
              /\ Some(last.sent[i].terminal) = launchTerminal
         /\ last.input.handle = None =>
              /\ Len(last.created) = 1
              /\ last.created[1].terminal = terminals
              /\ launchTerminal = Some(terminals)
         /\ last.input.handle /= None =>
              /\ last.created = <<>>
              /\ launchTerminal = last.input.handle

\* The first terminal was closed by the user, and the next run created the
\* second one and wrote to it.
C5_Witness ==
    /\ last.op = "runCurrentTarget"
    /\ ~disposed
    /\ 1 \in closedTerminals
    /\ launchTerminal = Some(2)
    /\ Len(last.sent) = 1
    /\ last.sent[1].terminal = 2

\* The handler reported the missing configuration to the user and to the log.
Reported == last.errors /= <<>> /\ last.log /= <<>>

\* C6: without a launch configuration, debugCurrentTarget and
\* runCurrentTarget show an error, log why, and do not act (no probe and no
\* debug session; no text sent to the terminal); runPreconfigureScript with
\* the script path unset, or set to a file that does not exist, shows an
\* error, logs why, and does not call the spawner.
C6_ConfigurationMissing ==
    /\ (last.op = "debugCurrentTarget" /\ last.input.launchConfiguration = None) =>
         /\ Reported
         /\ last.probes = <<>>
         /\ last.debug = <<>>
    /\ (last.op = "runCurrentTarget" /\ last.input.launchConfiguration = None) =>
         /\ Reported
         /\ last.sent = <<>>
    /\ ( /\ last.op = "runPreconfigureScript"
         /\ (last.input.script.path \in {None, Some("")} \/ ~last.input.script.exists) ) =>
         /\ Reported
         /\ last.spawns = <<>>

\* The pre-configure script is configured but is not on disk.
C6_Witness ==
    /\ last.op = "runPreconfigureScript"
    /\ last.input.script.path = Some("/ws/pre")
    /\ ~last.input.script.exists
    /\ last.errors = <<"Could not find pre-configure script.">>
    /\ last.spawns = <<>>

\* C10: runCurrentTarget without a launch configuration leaves the launcher
\* as it was: the stored handle is the one from before the call, and no
\* terminal is created, shown or written to.
C10_CleanAbort ==
    (last.op = "runCurrentTarget" /\ last.input.launchConfiguration = None) =>
        /\ launchTerminal = last.input.handle
        /\ last.created = <<>>
        /\ last.sent = <<>>
        /\ last.shown = <<>>

====
